---------------------------- MODULE Spec2Model ----------------------------
(***************************************************************************)
(* Model of the INSAFE scam detection engine: the scoring functions, the   *)
(* verdict thresholds, the channel analyzers, the in-memory store and the  *)
(* scan request handlers.                                                  *)
(*                                                                         *)
(* Strings are TLA+ strings; a character is a string of length 1.          *)
(* Math.random() is a draw u in 0..RandomSteps-1 standing for the value    *)
(* u / RandomSteps of the half-open interval [0,1); a function that calls  *)
(* it is the set of values it can return.                                  *)
(***************************************************************************)
EXTENDS Integers, Sequences, FiniteSets, TLC

VARIABLES
    variant,        \* which calculateRiskScore is exercised
    riskFactors,    \* the risk-factor list: the input L of a scoring function,
                    \* or the list an analyzer returned
    factor,         \* scoring: the additional factor f
    scoreL,         \* scoring: <<v>> for a value v returned for L, <<>> before
    scoreLf,        \* scoring: the same for L + [f]
    confidence,     \* <<c>> for the confidence c returned by an analyzer or
                    \* handed to the threshold logic, <<>> before
    verdict,        \* the verdict the threshold logic derived from confidence
    channel,        \* analyzers: the analyzer that is called
    input,          \* analyzers: its input string (the app name for APK)
    extracted,      \* analyzers: the extracted strings of an APK
    repeated,       \* analyzers: <<r>> for what a second call with the same
                    \* input returned, <<>> before
    binding,        \* server: what detectScamPatterns and calculateRiskScore
                    \* name in routes, the imported or the local functions
    scamPatterns,   \* MemStorage.scamPatterns, in insertion order
    currentPatternId,   \* MemStorage.currentPatternId
    scans,          \* MemStorage.scans, in insertion order
    currentScanId,  \* MemStorage.currentScanId
    reports,        \* MemStorage.reports, in insertion order
    currentReportId,    \* MemStorage.currentReportId
    now,            \* the value the last new Date() had, in milliseconds
    storeCall,      \* store used directly: the last call, its arguments and
                    \* what it returned
    handlers,       \* server: the state of each request's handler
    responses       \* server: the responses sent for each request, in order

scoringVars == <<factor, scoreL, scoreLf>>

analyzerVars == <<channel, input, extracted, repeated>>

pureVars == <<variant, riskFactors, factor, scoreL, scoreLf, confidence, verdict,
              channel, input, extracted, repeated>>

storeVars == <<scamPatterns, currentPatternId, scans, currentScanId, reports,
               currentReportId, now>>

serverVars == <<binding, scamPatterns, currentPatternId, scans, currentScanId,
                reports, currentReportId, now, storeCall, handlers, responses>>

vars == <<variant, riskFactors, factor, scoreL, scoreLf, confidence, verdict,
          channel, input, extracted, repeated, binding, scamPatterns, currentPatternId,
          scans, currentScanId, reports, currentReportId, now, storeCall, handlers,
          responses>>

None == "none"

(***************************************************************************)
(* Bounds of the model.                                                    *)
(***************************************************************************)
\* longest risk-factor list L drawn as an input of the scoring functions
MaxFactors == 3
\* number of equally spaced outcomes of one Math.random() call
RandomSteps == 25
\* number of scan requests the server receives
MaxRequests == 2
\* number of rules added to the registry after construction
MaxPatterns == 2
\* number of scans created in the store used directly
MaxScans == 3

(***************************************************************************)
(* JavaScript string and number primitives.                                *)
(***************************************************************************)
Min(a, b) == IF a <= b THEN a ELSE b

Max(a, b) == IF a >= b THEN a ELSE b

CharAt(s, i) == SubSeq(s, i, i)

UpperLetters == "ABCDEFGHIJKLMNOPQRSTUVWXYZ"

LowerLetters == "abcdefghijklmnopqrstuvwxyz"

\* the lower-case letter of each upper-case letter
UpperToLower ==
    [c \in {CharAt(UpperLetters, k) : k \in 1..26} |->
        CharAt(LowerLetters, CHOOSE k \in 1..26 : CharAt(UpperLetters, k) = c)]

LowerChar(c) == IF c \in DOMAIN UpperToLower THEN UpperToLower[c] ELSE c

\* s.toLowerCase(), character by character (by halves, to keep the
\* evaluation shallow)
RECURSIVE ToLowerCase(_)
ToLowerCase(s) ==
    IF Len(s) = 0 THEN ""
    ELSE IF Len(s) = 1 THEN LowerChar(s)
    ELSE ToLowerCase(SubSeq(s, 1, Len(s) \div 2))
             \o ToLowerCase(SubSeq(s, Len(s) \div 2 + 1, Len(s)))

Includes(s, sub) ==
    \E i \in 0..(Len(s) - Len(sub)) : SubSeq(s, i + 1, i + Len(sub)) = sub

StartsWith(s, prefix) ==
    Len(s) >= Len(prefix) /\ SubSeq(s, 1, Len(prefix)) = prefix

RECURSIVE Join(_, _)
Join(list, sep) ==
    IF Len(list) = 0 THEN ""
    ELSE IF Len(list) = 1 THEN list[1]
    ELSE list[1] \o sep \o Join(Tail(list), sep)

RandomDraws == 0..(RandomSteps - 1)

\* the values Math.floor(Math.random() * n) can take
FloorRandom(n) == {(u * n) \div RandomSteps : u \in RandomDraws}

(***************************************************************************)
(* The three scoring functions.                                            *)
(***************************************************************************)
\* the tier of a non-empty list: the values its randomized base score can take
TierScores(n) ==
    IF n = 1 THEN {35 + j : j \in FloorRandom(20)}
    ELSE IF n = 2 THEN {55 + j : j \in FloorRandom(25)}
    ELSE IF n >= 3 THEN {80 + j : j \in FloorRandom(15)}
    ELSE {0}

\* contextual adjustments in which every phrase group adds the same 10
BonusFlat(factors) ==
    LET content == ToLowerCase(Join(factors, " "))
    IN    (IF Includes(content, "instant loan") \/ Includes(content, "guaranteed win")
           THEN 10 ELSE 0)
        + (IF Includes(content, "rbi") \/ Includes(content, "bank security")
           THEN 10 ELSE 0)
        + (IF Includes(content, "upi pin") \/ Includes(content, "otp")
           THEN 10 ELSE 0)

\* the contextual adjustments added to the base score
Bonus(factors) ==
    LET content == ToLowerCase(Join(factors, " "))
    IN    (IF Includes(content, "instant loan") \/ Includes(content, "guaranteed win")
           THEN 10 ELSE 0)
        + (IF Includes(content, "rbi") \/ Includes(content, "bank security")
           THEN 15 ELSE 0)
        + (IF Includes(content, "upi pin") \/ Includes(content, "otp")
           THEN 12 ELSE 0)

\* calculateRiskScore without the final clamp
calculateRiskScoreUnclamped(factors) ==
    IF Len(factors) = 0 THEN {j + 5 : j \in FloorRandom(10)}
    ELSE LET bonus == Bonus(factors)
         IN  {score + bonus : score \in TierScores(Len(factors))}

\* calculateRiskScore whose zero-factor baseline reaches the top of the range
calculateRiskScoreHighBaseline(factors) ==
    IF Len(factors) = 0 THEN {j + 86 : j \in FloorRandom(10)}
    ELSE LET bonus == Bonus(factors)
         IN  {Max(5, Min(95, score + bonus)) : score \in TierScores(Len(factors))}

\* server/scam-detector.ts: the tiered-random scoring function, as the set of
\* values it can return, one per outcome of its Math.random() call
calculateRiskScore(factors) ==
    IF Len(factors) = 0 THEN {j + 5 : j \in FloorRandom(10)}
    ELSE LET bonus == Bonus(factors)
         IN  {Max(5, Min(95, score + bonus)) : score \in TierScores(Len(factors))}

\* weights that match the first word of a category only
FactorWeightLoose(f) ==
      (IF Includes(f, "Suspicious") THEN 15 ELSE 0)
    + (IF Includes(f, "URL") THEN 20 ELSE 0)
    + (IF Includes(f, "Excessive") THEN 10 ELSE 0)
    + (IF Includes(f, "monetary") THEN 15 ELSE 0)
    + (IF Includes(f, "Request") THEN 30 ELSE 0)
    + (IF Includes(f, "Claims to be from") THEN 35 ELSE 0)

\* README.md: the weight one factor adds to the keyword-weighted score
FactorWeight(f) ==
      (IF Includes(f, "Suspicious keyword") THEN 15 ELSE 0)
    + (IF Includes(f, "URL shortener") THEN 20 ELSE 0)
    + (IF f = "Excessive punctuation" THEN 10 ELSE 0)
    + (IF f = "Money amount mentioned" THEN 15 ELSE 0)
    + (IF Includes(f, "Request for personal information") THEN 30 ELSE 0)
    + (IF Includes(f, "Impersonation of authority") THEN 35 ELSE 0)

RECURSIVE SumWeights(_)
SumWeights(factors) ==
    IF Len(factors) = 0 THEN 0
    ELSE FactorWeight(Head(factors)) + SumWeights(Tail(factors))

\* README.md: the keyword-weighted scoring function
calculateRiskScoreReadme(factors) ==
    IF Len(factors) = 0 THEN 10
    ELSE Min(Max(SumWeights(factors), 0), 100)

\* server/routes.ts: the count-based scoring function
calculateRiskScoreRoutes(factors) ==
    IF Len(factors) = 0 THEN 5
    ELSE IF Len(factors) = 1 THEN 45
    ELSE IF Len(factors) = 2 THEN 75
    ELSE 95

(***************************************************************************)
(* The verdict thresholds of the scan handlers.                            *)
(***************************************************************************)
\* thresholds with the dangerous boundary off by one
classifyStrict(c) ==
    IF c > 70 THEN "dangerous"
    ELSE IF c >= 40 THEN "suspicious"
    ELSE "safe"

classify(c) ==
    IF c >= 70 THEN "dangerous"
    ELSE IF c >= 40 THEN "suspicious"
    ELSE "safe"

(***************************************************************************)
(* The channel analyzers of server/scam-detector.ts. The analyzers printed *)
(* in README.md are the same text; they differ in the calculateRiskScore   *)
(* they call.                                                              *)
(***************************************************************************)
Digits == {"0", "1", "2", "3", "4", "5", "6", "7", "8", "9"}

\* the characters the regular expression class \s matches
WhiteSpace == {" ", "\t", "\n", "\r", "\f"}

\* the characters s[from..from+n-1] exist and are all in the class
RunOf(s, from, n, class) ==
    /\ from >= 1
    /\ from + n - 1 <= Len(s)
    /\ \A k \in from..(from + n - 1) : CharAt(s, k) \in class

\* the factors a forEach over a keyword list pushes: one per keyword that
\* satisfies the test, in list order
PushEach(keywords, Test(_), Describe(_)) ==
    LET hits == SelectSeq(keywords, Test)
    IN  [k \in 1..Len(hits) |-> Describe(hits[k])]

\* /\d{1,3}\.\d{1,3}\.\d{1,3}\.\d{1,3}/.test(s)
TestIPAddress(s) ==
    \E i \in 1..Len(s) : \E a, b, c, d \in 1..3 :
        /\ RunOf(s, i, a, Digits)
        /\ RunOf(s, i + a, 1, {"."})
        /\ RunOf(s, i + a + 1, b, Digits)
        /\ RunOf(s, i + a + 1 + b, 1, {"."})
        /\ RunOf(s, i + a + b + 2, c, Digits)
        /\ RunOf(s, i + a + b + 2 + c, 1, {"."})
        /\ RunOf(s, i + a + b + c + 3, d, Digits)

\* (s.match(/\./g) || []).length
CountDots(s) == Cardinality({i \in 1..Len(s) : CharAt(s, i) = "."})

\* a digit at i, then any white space, then the word: /\d+\s*word/
DigitsThenWord(s, i, word) ==
    /\ RunOf(s, i, 1, Digits)
    /\ \E k \in 0..Len(s) :
          /\ RunOf(s, i + 1, k, WhiteSpace)
          /\ i + k + Len(word) <= Len(s)
          /\ SubSeq(s, i + k + 1, i + k + Len(word)) = word

\* /₹[\d,]+|rs\.?\s*\d+|\d+\s*lakh|\d+\s*crore/i.test(text); the flag i is
\* modelled by matching the lower-cased text
TestMonetaryAmount(text) ==
    LET s == ToLowerCase(text)
    IN  \E i \in 1..Len(s) :
            \/ /\ CharAt(s, i) = "₹"
               /\ RunOf(s, i + 1, 1, Digits \cup {","})
            \/ /\ RunOf(s, i, 1, {"r"})
               /\ RunOf(s, i + 1, 1, {"s"})
               /\ \E dot \in 0..1 : \E k \in 0..Len(s) :
                     /\ RunOf(s, i + 2, dot, {"."})
                     /\ RunOf(s, i + 2 + dot, k, WhiteSpace)
                     /\ RunOf(s, i + 2 + dot + k, 1, Digits)
            \/ DigitsThenWord(s, i, "lakh")
            \/ DigitsThenWord(s, i, "crore")

\* the risk factors analyzeURL returns
analyzeURL(url) ==
    LET normalizedURL == ToLowerCase(url)
        suspiciousDomains == <<".tk", ".ml", ".ga", ".cf", "bit.ly", "tinyurl.com">>
    IN    PushEach(suspiciousDomains,
                   LAMBDA domain : Includes(normalizedURL, domain),
                   LAMBDA domain : "Suspicious domain: " \o domain)
       \o (IF TestIPAddress(normalizedURL)
           THEN <<"Uses IP address instead of domain">> ELSE <<>>)
       \o (IF CountDots(url) > 3
           THEN <<"Excessive subdomains detected">> ELSE <<>>)
       \o (IF ~StartsWith(normalizedURL, "https://")
           THEN <<"No secure HTTPS connection">> ELSE <<>>)

\* the risk factors analyzeSMS returns
analyzeSMS(text) ==
    LET normalizedText == ToLowerCase(text)
        urgencyWords == <<"urgent", "immediate", "expire", "block", "suspend",
                          "limited time">>
        scamPhrases == <<"click here", "verify now", "claim prize", "congratulations">>
    IN    PushEach(urgencyWords,
                   LAMBDA word : Includes(normalizedText, word),
                   LAMBDA word : "Urgency tactic: \"" \o word \o "\"")
       \o (IF TestMonetaryAmount(text)
           THEN <<"Contains monetary amounts">> ELSE <<>>)
       \o (IF Includes(normalizedText, "bit.ly") \/ Includes(normalizedText, "tinyurl")
           THEN <<"Contains shortened URLs">> ELSE <<>>)
       \o PushEach(scamPhrases,
                   LAMBDA phrase : Includes(normalizedText, phrase),
                   LAMBDA phrase : "Scam phrase: \"" \o phrase \o "\"")

\* the risk factors analyzeCall returns
\* an analyzeCall that keeps state between its invocations: it reports the
\* authority only until a call has returned
analyzeCallOnce(transcript) ==
    IF confidence = <<>> /\ Includes(ToLowerCase(transcript), "rbi")
    THEN <<"Claims to be from: rbi">>
    ELSE <<>>

analyzeCall(transcript) ==
    LET normalizedTranscript == ToLowerCase(transcript)
        authorities == <<"rbi", "bank", "police", "income tax", "customs">>
        infoRequests == <<"otp", "pin", "password", "cvv", "card number">>
        threats == <<"block account", "legal action", "arrest", "fine">>
    IN    PushEach(authorities,
                   LAMBDA authority : Includes(normalizedTranscript, authority),
                   LAMBDA authority : "Claims to be from: " \o authority)
       \o PushEach(infoRequests,
                   LAMBDA request : Includes(normalizedTranscript, request),
                   LAMBDA request : "Requests sensitive info: " \o request)
       \o PushEach(threats,
                   LAMBDA threat : Includes(normalizedTranscript, threat),
                   LAMBDA threat : "Makes threats: " \o threat)

\* the risk factors analyzeAPK returns
analyzeAPK(appName, extractedStrings) ==
    LET combinedText == ToLowerCase(appName \o " " \o extractedStrings)
        loanKeywords == <<"instant", "quick", "easy", "approved">>
        gamingKeywords == <<"win", "cash", "earn", "daily">>
    IN    PushEach(loanKeywords,
                   LAMBDA keyword : /\ Includes(combinedText, keyword)
                                    /\ Includes(combinedText, "loan"),
                   LAMBDA keyword : "Loan fraud indicator: " \o keyword)
       \o PushEach(gamingKeywords,
                   LAMBDA keyword : /\ Includes(combinedText, keyword)
                                    /\ \/ Includes(combinedText, "rummy")
                                       \/ Includes(combinedText, "game"),
                   LAMBDA keyword : "Gaming fraud indicator: " \o keyword)
       \o (IF Includes(extractedStrings, "contact") /\ Includes(extractedStrings, "sms")
           THEN <<"Requests excessive permissions">> ELSE <<>>)

\* const confidence = calculateRiskScore(riskFactors), in the file of the variant
Confidences(v, factors) ==
    IF v = "tiered" THEN calculateRiskScore(factors)
    ELSE IF v = "readme" THEN {calculateRiskScoreReadme(factors)}
    ELSE {calculateRiskScoreRoutes(factors)}

(***************************************************************************)
(* JSON values of a request body, and more string primitives.              *)
(***************************************************************************)
Undefined == [kind |-> "undefined", str |-> "", num |-> 0]

Str(text) == [kind |-> "string", str |-> text, num |-> 0]

Num(n) == [kind |-> "number", str |-> "", num |-> n]

\* !value is false
Truthy(value) ==
    \/ value.kind = "string" /\ value.str # ""
    \/ value.kind = "number" /\ value.num # 0

DigitChar(d) == CharAt("0123456789", d + 1)

\* String(n), n a natural number
RECURSIVE NumberToString(_)
NumberToString(n) ==
    IF n < 10 THEN DigitChar(n)
    ELSE NumberToString(n \div 10) \o DigitChar(n % 10)

\* `${value}`
TemplateString(value) ==
    IF value.kind = "string" THEN value.str
    ELSE IF value.kind = "number" THEN NumberToString(value.num)
    ELSE "undefined"

RECURSIVE TrimStart(_)
TrimStart(s) ==
    IF Len(s) > 0 /\ CharAt(s, 1) \in WhiteSpace
    THEN TrimStart(SubSeq(s, 2, Len(s))) ELSE s

RECURSIVE TrimEnd(_)
TrimEnd(s) ==
    IF Len(s) > 0 /\ CharAt(s, Len(s)) \in WhiteSpace
    THEN TrimEnd(SubSeq(s, 1, Len(s) - 1)) ELSE s

Trim(s) == TrimEnd(TrimStart(s))

\* s.replace(/\D/g, '')
RECURSIVE RemoveNonDigits(_)
RemoveNonDigits(s) ==
    IF Len(s) = 0 THEN ""
    ELSE IF Len(s) = 1 THEN (IF s \in Digits THEN s ELSE "")
    ELSE RemoveNonDigits(SubSeq(s, 1, Len(s) \div 2))
             \o RemoveNonDigits(SubSeq(s, Len(s) \div 2 + 1, Len(s)))

\* array.find(test): <<the first element that passes>>, <<>> for undefined
Find(array, Test(_)) ==
    LET hits == SelectSeq(array, Test)
    IN  IF Len(hits) = 0 THEN <<>> ELSE <<hits[1]>>

(***************************************************************************)
(* MemStorage (server/storage.ts). A Map is the sequence of its values in  *)
(* insertion order; every value carries its key in the field id.           *)
(***************************************************************************)
\* Map.set(value.id, value)
MapSet(map, value) ==
    IF \E k \in 1..Len(map) : map[k].id = value.id
    THEN [k \in 1..Len(map) |-> IF map[k].id = value.id THEN value ELSE map[k]]
    ELSE Append(map, value)

InsertScamPattern(category, pattern, weight, description) ==
    [category |-> category, pattern |-> pattern, weight |-> weight,
     description |-> description]

defaultPatterns ==
    << InsertScamPattern("loan", "instant loan", 90, "Instant loan promises"),
       InsertScamPattern("loan", "loan approval", 85, "Guaranteed loan approval"),
       InsertScamPattern("loan", "without documents", 95, "No document loans"),
       InsertScamPattern("loan", "immediate fund", 80, "Immediate fund transfer"),
       InsertScamPattern("rummy", "earn money playing", 90, "Earn money playing games"),
       InsertScamPattern("rummy", "guaranteed win", 95, "Guaranteed winning"),
       InsertScamPattern("rummy", "daily earning", 85, "Daily earning promises"),
       InsertScamPattern("rummy", "cash game", 70, "Cash game references"),
       InsertScamPattern("phishing", "verify account", 80, "Account verification scam"),
       InsertScamPattern("phishing", "suspended account", 85, "Account suspension threat"),
       InsertScamPattern("phishing", "click here now", 75, "Urgent action required"),
       InsertScamPattern("phishing", "update kyc", 80, "KYC update scam"),
       InsertScamPattern("upi", "upi pin", 95, "UPI PIN request"),
       InsertScamPattern("upi", "payment failed", 70, "Fake payment failure"),
       InsertScamPattern("upi", "refund process", 75, "Fake refund process"),
       InsertScamPattern("lottery", "kbc winner", 95, "KBC lottery scam"),
       InsertScamPattern("lottery", "congratulations won", 90, "Congratulatory lottery scam"),
       InsertScamPattern("lottery", "prize money", 85, "Prize money scam") >>

\* createScamPattern on a store [scamPatterns, currentPatternId]: the store after
createScamPattern(store, insertPattern) ==
    LET id == store.currentPatternId
        pattern == [id |-> id,
                    category |-> insertPattern.category,
                    pattern |-> insertPattern.pattern,
                    weight |-> insertPattern.weight,
                    description |-> insertPattern.description]
    IN  [scamPatterns |-> MapSet(store.scamPatterns, pattern),
         currentPatternId |-> id + 1]

\* defaultPatterns.forEach(pattern => this.createScamPattern(pattern))
RECURSIVE initializeScamPatterns(_, _)
initializeScamPatterns(store, patterns) ==
    IF Len(patterns) = 0 THEN store
    ELSE initializeScamPatterns(createScamPattern(store, Head(patterns)),
                                Tail(patterns))

\* the store a new MemStorage() holds
Constructed ==
    initializeScamPatterns([scamPatterns |-> <<>>, currentPatternId |-> 1],
                           defaultPatterns)

InitStore ==
    /\ scamPatterns = Constructed.scamPatterns
    /\ currentPatternId = Constructed.currentPatternId
    /\ scans = <<>>
    /\ currentScanId = 1
    /\ reports = <<>>
    /\ currentReportId = 1
    /\ now = 0

\* new Date(): the clock has not moved since it was last read, or it has
Dates == {now, now + 1}

\* getScamPatterns(category), "" for a call without argument
\* a getScamPatterns that ignores its category
getScamPatternsUnfiltered(category) == scamPatterns

getScamPatterns(category) ==
    IF category # ""
    THEN SelectSeq(scamPatterns, LAMBDA pattern : pattern.category = category)
    ELSE scamPatterns

\* the Scan createScan stores and returns for insertScan at the given date
NewScan(insertScan, date) ==
    [id |-> currentScanId,
     type |-> insertScan.type,
     content |-> insertScan.content,
     verdict |-> insertScan.verdict,
     confidence |-> insertScan.confidence,
     riskFactors |-> insertScan.riskFactors,
     timestamp |-> date]

\* createScan(insertScan): the effect on the store
\* a createScan that reads the counter without advancing it
createScanSameId(insertScan, date) ==
    /\ now' = date
    /\ currentScanId' = currentScanId
    /\ scans' = MapSet(scans, NewScan(insertScan, date))

createScan(insertScan, date) ==
    /\ now' = date
    /\ currentScanId' = currentScanId + 1
    /\ scans' = MapSet(scans, NewScan(insertScan, date))

\* the place of x in a list sorted by (a, b) => b.timestamp - a.timestamp:
\* Array.prototype.sort is stable, x stays behind the elements it ties with
InsertByTimestamp(sorted, x) ==
    LET before == SelectSeq(sorted, LAMBDA y : y.timestamp >= x.timestamp)
        after == SelectSeq(sorted, LAMBDA y : y.timestamp < x.timestamp)
    IN  before \o <<x>> \o after

\* list.sort((a, b) => b.timestamp.getTime() - a.timestamp.getTime())
RECURSIVE SortByTimestamp(_)
SortByTimestamp(list) ==
    IF Len(list) = 0 THEN <<>>
    ELSE InsertByTimestamp(SortByTimestamp(SubSeq(list, 1, Len(list) - 1)),
                           list[Len(list)])

\* list.slice(0, limit)
Slice(list, limit) ==
    SubSeq(list, 1, IF limit < 0 THEN Max(Len(list) + limit, 0)
                    ELSE Min(limit, Len(list)))

\* getRecentScans(limit)
getRecentScans(limit) == Slice(SortByTimestamp(scans), limit)

\* the Report createReport stores and returns for insertReport at the given date
NewReport(insertReport, date) ==
    [id |-> currentReportId,
     type |-> insertReport.type,
     content |-> insertReport.content,
     description |-> insertReport.description,
     verified |-> FALSE,
     timestamp |-> date]

\* createReport(insertReport): the effect on the store
createReport(insertReport, date) ==
    /\ now' = date
    /\ currentReportId' = currentReportId + 1
    /\ reports' = MapSet(reports, NewReport(insertReport, date))

\* getReports(limit)
getReports(limit) == Slice(SortByTimestamp(reports), limit)

\* getScanStats(), today being the midnight before the call
getScanStats(today) ==
    [totalScans |-> Len(scans),
     scamsBlocked |-> Len(SelectSeq(scans, LAMBDA scan :
                             scan.verdict = "dangerous" \/ scan.verdict = "suspicious")),
     todayScans |-> Len(SelectSeq(scans, LAMBDA scan : scan.timestamp >= today)),
     accuracy |-> "95.8"]

(***************************************************************************)
(* Registry cross-check and the phone lookup of the routes.                *)
(***************************************************************************)
FactorOf(pattern) ==
    IF pattern.description # "" /\ pattern.description # None
    THEN pattern.description ELSE pattern.pattern

\* server/scam-detector.ts: detectScamPatterns
detectScamPatterns(text, patterns) ==
    LET normalizedContent == Trim(ToLowerCase(text))
    IN  PushEach(patterns,
                 LAMBDA pattern : Includes(normalizedContent, ToLowerCase(pattern.pattern)),
                 FactorOf)

\* routes: the local detectScamPatterns
detectScamPatternsRoutes(text, patterns) ==
    PushEach(patterns,
             LAMBDA pattern : Includes(text, ToLowerCase(pattern.pattern)),
             FactorOf)

(***************************************************************************)
(* detectScamPatterns as printed in README.md, with the registry rules     *)
(* applied as regular expressions. The rule sources of the model are       *)
(* literal texts, which match as case-insensitive substrings, and sources  *)
(* with an unclosed group or class, for which new RegExp throws.           *)
(***************************************************************************)
CountOf(s, c) == Cardinality({i \in 1..Len(s) : CharAt(s, i) = c})

\* new RegExp(source, 'i') throws a SyntaxError
RegExpThrows(source) ==
    \/ CountOf(source, "(") # CountOf(source, ")")
    \/ CountOf(source, "[") > CountOf(source, "]")

\* new RegExp(source, 'i').test(content), source a literal text
RegExpTest(source, content) == Includes(ToLowerCase(content), ToLowerCase(source))

\* s.match(/(\₹|rs\.?|rupees?)\s*\d+/)
TestMoneyAmount(s) ==
    \E i \in 1..Len(s) : \E word \in {"₹", "rs", "rs.", "rupee", "rupees"} :
        \E k \in 0..Len(s) :
            /\ i + Len(word) - 1 <= Len(s)
            /\ SubSeq(s, i, i + Len(word) - 1) = word
            /\ RunOf(s, i + Len(word), k, WhiteSpace)
            /\ RunOf(s, i + Len(word) + k, 1, Digits)

\* the factors pushed before the registry rules are applied
detectKeywordsReadme(content) ==
    LET lowerContent == ToLowerCase(content)
        scamKeywords == << "lottery", "winner", "prize", "urgent", "loan",
                           "instant approval", "without documents", "click link",
                           "claim", "kbc", "offer" >>
        urlShorteners == <<"bit.ly", "goo.gl", "tinyurl.com", "t.co">>
    IN     PushEach(scamKeywords, LAMBDA keyword : Includes(lowerContent, keyword),
                    LAMBDA keyword : "Suspicious keyword detected: " \o keyword)
        \o PushEach(urlShorteners, LAMBDA shortener : Includes(lowerContent, shortener),
                    LAMBDA shortener : "URL shortener detected: " \o shortener)
        \o (IF CountOf(content, "!") + CountOf(content, "?") > 3
            THEN <<"Excessive punctuation">> ELSE <<>>)
        \o (IF TestMoneyAmount(lowerContent)
            THEN <<"Money amount mentioned">> ELSE <<>>)

\* README.md: detectScamPatterns; threw when an exception leaves the function
detectScamPatternsReadme(content, patterns) ==
    IF \E k \in 1..Len(patterns) :
          patterns[k].pattern # "" /\ RegExpThrows(patterns[k].pattern)
    THEN [threw |-> TRUE, riskFactors |-> <<>>]
    ELSE [threw |-> FALSE,
          riskFactors |->
              detectKeywordsReadme(content)
              \o PushEach(patterns,
                          LAMBDA pattern : /\ pattern.pattern # ""
                                           /\ RegExpTest(pattern.pattern, content),
                          LAMBDA pattern : IF pattern.description = None
                                           THEN "Pattern matched"
                                           ELSE pattern.description)]

Scammer(number, type, reportCount, lastSeen) ==
    [number |-> number, type |-> type, reports |-> reportCount, lastSeen |-> lastSeen]

knownScamNumbers ==
    << Scammer("+91-9876543210", "Loan Fraud", 342, "2 hours ago"),
       Scammer("+91-8765432109", "KBC Lottery Scam", 187, "5 hours ago"),
       Scammer("+91-7654321098", "Bank Impersonation", 251, "1 day ago"),
       Scammer("+91-6543210987", "Investment Fraud", 89, "3 hours ago"),
       Scammer("+91-5432109876", "UPI Fraud", 156, "30 minutes ago"),
       Scammer("+91-4321098765", "Tech Support Scam", 73, "4 hours ago"),
       Scammer("+91-3210987654", "Romance Scam", 45, "6 hours ago") >>

\* the confidence of a known scammer without the cap at 95
ScammerConfidenceUncapped(reportCount) == 85 + reportCount \div 10

\* Math.min(85 + Math.floor(scammerData.reports / 10), 95)
ScammerConfidence(reportCount) == Min(85 + reportCount \div 10, 95)

\* a heuristic confidence that crosses the dangerous threshold
SuspiciousConfidenceSteep(count) == 35 + count * 20

\* a heuristic confidence that ignores how many heuristics fired
SuspiciousConfidenceFlat(count) == 50

\* 35 + suspiciousPatterns.length * 15
SuspiciousConfidence(count) == 35 + count * 15

\* a lookup that finds a number only as it is written in the table
lookupScammerExact(phoneNumber) ==
    Find(knownScamNumbers, LAMBDA scammer : scammer.number = Trim(phoneNumber))

\* knownScamNumbers.find(...): <<the entry>>, <<>> when the number is not found
lookupScammer(phoneNumber) ==
    LET cleanedPhone == RemoveNonDigits(phoneNumber)
        normalizedPhone == Trim(phoneNumber)
    IN  Find(knownScamNumbers,
             LAMBDA scammer : \/ scammer.number = normalizedPhone
                              \/ RemoveNonDigits(scammer.number) = cleanedPhone)

\* the phone handler from the lookup to the else branches: the set of
\* outcomes [verdict, confidence, riskFactors, scammerData]
analyzePhone(phoneNumber) ==
    LET cleanedPhone == RemoveNonDigits(phoneNumber)
        scammerData == lookupScammer(phoneNumber)
        suspiciousPatterns ==
               (IF StartsWith(cleanedPhone, "900") \/ StartsWith(cleanedPhone, "905")
                THEN <<"Premium rate number">> ELSE <<>>)
            \o (IF Len(cleanedPhone) > 10 /\ ~StartsWith(cleanedPhone, "91")
                THEN <<"International/VOIP number">> ELSE <<>>)
    IN  IF scammerData # <<>>
        THEN {[verdict |-> "dangerous",
               confidence |-> ScammerConfidence(scammerData[1].reports),
               riskFactors |->
                   << "Reported " \o NumberToString(scammerData[1].reports)
                          \o " times for " \o scammerData[1].type,
                      "Last seen: " \o scammerData[1].lastSeen,
                      "Known scammer in community database",
                      "High fraud risk - Block immediately" >>,
               scammerData |-> scammerData]}
        ELSE IF Len(suspiciousPatterns) > 0
        THEN {[verdict |-> "suspicious",
               confidence |-> SuspiciousConfidence(Len(suspiciousPatterns)),
               riskFactors |-> suspiciousPatterns,
               scammerData |-> scammerData]}
        ELSE {[verdict |-> "safe",
               confidence |-> j + 5,
               riskFactors |-> <<"No reports found", "Appears to be legitimate">>,
               scammerData |-> scammerData] : j \in FloorRandom(15)}

(***************************************************************************)
(* The scan request handlers of the routes. A handler runs from one await  *)
(* to the next without interruption: each step below is one such run. The  *)
(* file both imports detectScamPatterns and calculateRiskScore and         *)
(* declares local functions of these names; which of the two a call in a   *)
(* handler reaches is fixed by the build, and is the variable binding.     *)
(***************************************************************************)
Requests == 1..MaxRequests

IdleHandler ==
    [pc |-> "idle", type |-> None, body |-> Undefined,
     extractedStrings |-> Undefined, patterns |-> <<>>, result |-> <<>>,
     scan |-> <<>>]

HandlersIdle ==
    /\ handlers = [h \in Requests |-> IdleHandler]
    /\ responses = [h \in Requests |-> <<>>]

\* the store is not used directly
NoCall == [op |-> None]

ServerIdle == binding = None /\ InitStore /\ HandlersIdle /\ storeCall = NoCall

\* detectScamPatterns(content, patterns) as the routes reach it
Detect(text, patterns) ==
    IF binding = "imported" THEN detectScamPatterns(text, patterns)
    ELSE detectScamPatternsRoutes(text, patterns)

\* calculateRiskScore(riskFactors) as the routes reach it: the values it can return
Score(factors) ==
    IF binding = "imported" THEN calculateRiskScore(factors)
    ELSE {calculateRiskScoreRoutes(factors)}

\* a rejection that first records the rejected request as a scan
RejectStored(h, type, body, extractedStrings, message) ==
    /\ handlers' = [handlers EXCEPT ![h] =
                       [IdleHandler EXCEPT !.pc = "done", !.type = type, !.body = body,
                                           !.extractedStrings = extractedStrings]]
    /\ responses' = [responses EXCEPT ![h] =
                        Append(@, [status |-> 400, body |-> [error |-> message]])]
    /\ \E date \in Dates :
          createScan([type |-> type, content |-> body, verdict |-> "safe",
                      confidence |-> 0, riskFactors |-> <<>>], date)
    /\ UNCHANGED <<binding, storeCall, scamPatterns, currentPatternId, reports,
                   currentReportId, pureVars>>

\* return res.status(400).json({ error: message })
Reject(h, type, body, extractedStrings, message) ==
    /\ handlers' = [handlers EXCEPT ![h] =
                       [IdleHandler EXCEPT !.pc = "done", !.type = type, !.body = body,
                                           !.extractedStrings = extractedStrings]]
    /\ responses' = [responses EXCEPT ![h] =
                        Append(@, [status |-> 400, body |-> [error |-> message]])]
    /\ UNCHANGED <<binding, storeCall, storeVars, pureVars>>

\* a handler that, besides reading the rules, adds one it learned from the
\* request to the registry
AwaitPatternsLearning(h, type, body, extractedStrings) ==
    LET store == createScamPattern([scamPatterns |-> scamPatterns,
                                    currentPatternId |-> currentPatternId],
                                   InsertScamPattern(type, "learned", 50,
                                                     "Learned from a scan"))
    IN  /\ handlers' = [handlers EXCEPT ![h] =
                           [IdleHandler EXCEPT !.pc = "awaitPatterns", !.type = type,
                                               !.body = body,
                                               !.extractedStrings = extractedStrings,
                                               !.patterns = getScamPatterns("")]]
        /\ scamPatterns' = store.scamPatterns
        /\ currentPatternId' = store.currentPatternId
        /\ UNCHANGED <<binding, storeCall, scans, currentScanId, reports,
                       currentReportId, now, responses, pureVars>>

\* const patterns = await storage.getScamPatterns()
AwaitPatterns(h, type, body, extractedStrings) ==
    /\ handlers' = [handlers EXCEPT ![h] =
                       [IdleHandler EXCEPT !.pc = "awaitPatterns", !.type = type,
                                           !.body = body,
                                           !.extractedStrings = extractedStrings,
                                           !.patterns = getScamPatterns("")]]
    /\ UNCHANGED <<binding, storeCall, storeVars, responses, pureVars>>

\* const scan = await storage.createScan({...}), for one outcome of the analysis
Save(h, outcome) ==
    LET insertScan == [type |-> handlers[h].type,
                       content |-> handlers[h].body,
                       verdict |-> outcome.verdict,
                       confidence |-> outcome.confidence,
                       riskFactors |-> outcome.riskFactors]
    IN  \E date \in Dates :
            /\ createScan(insertScan, date)
            /\ handlers' = [handlers EXCEPT ![h].pc = "awaitScan",
                                            ![h].result = <<outcome>>,
                                            ![h].scan = Append(@, NewScan(insertScan, date))]
            /\ UNCHANGED <<binding, storeCall, scamPatterns, currentPatternId, reports,
                           currentReportId, responses, pureVars>>

\* the phone handler's createScan: it has not awaited before
SavePhone(h, phoneNumber, outcome) ==
    LET insertScan == [type |-> "phone",
                       content |-> phoneNumber,
                       verdict |-> outcome.verdict,
                       confidence |-> outcome.confidence,
                       riskFactors |-> outcome.riskFactors]
    IN  \E date \in Dates :
            /\ createScan(insertScan, date)
            /\ handlers' = [handlers EXCEPT ![h] =
                               [IdleHandler EXCEPT !.pc = "awaitScan", !.type = "phone",
                                                   !.body = phoneNumber,
                                                   !.result = <<outcome>>,
                                                   !.scan = <<NewScan(insertScan, date)>>]]
            /\ UNCHANGED <<binding, storeCall, scamPatterns, currentPatternId, reports,
                           currentReportId, responses, pureVars>>

\* the outcomes of scoring and classifying the detected factors
Outcomes(factors) ==
    {[verdict |-> classify(c), confidence |-> c, riskFactors |-> factors,
      scammerData |-> <<>>] : c \in Score(factors)}

\* detection, scoring, thresholds and createScan of a registry handler
AnalyzeAndSave(h, text) ==
    \E outcome \in Outcomes(Detect(text, handlers[h].patterns)) : Save(h, outcome)

\* a handler that ends without sending its result
RespondNever(h) ==
    /\ handlers' = [handlers EXCEPT ![h].pc = "done"]
    /\ UNCHANGED <<binding, storeCall, storeVars, responses, pureVars>>

\* res.json({ id: scan.id, verdict, confidence, riskFactors, ... })
Respond(h) ==
    LET result == handlers[h].result[1]
        answer == [id |-> handlers[h].scan[1].id,
                   verdict |-> result.verdict,
                   confidence |-> result.confidence,
                   riskFactors |-> result.riskFactors,
                   timestamp |-> handlers[h].scan[1].timestamp,
                   scammerData |-> result.scammerData]
    IN  /\ handlers' = [handlers EXCEPT ![h].pc = "done"]
        /\ responses' = [responses EXCEPT ![h] =
                            Append(@, [status |-> 200, body |-> answer])]
        /\ UNCHANGED <<binding, storeCall, storeVars, pureVars>>

At(h, type, pc) == handlers[h].type = type /\ handlers[h].pc = pc

\* request h arrives: requests are numbered in their order of arrival
Arrives(h) ==
    /\ handlers[h].pc = "idle"
    /\ \A g \in Requests : g < h => handlers[g].pc # "idle"

ScamText == "Instant Loan, UPI PIN, guaranteed win"

URLBodies == {Undefined, Num(7), Str(""), Str(ScamText)}

TextBodies == {Undefined, Str(ScamText)}

\* <<appName, extractedStrings>>
APKBodies ==
    { <<Undefined, Str("x")>>, <<Str("Instant Loan"), Str("upi pin guaranteed win")>>,
      <<Str("x"), Undefined>> }

PhoneBodies ==
    { Undefined, Str("+91-9876543210"), Str(" 91 32109 87654 "), Str("9001234567"),
      Str("90512345678"), Str("9876543210") }

\* POST /api/scan/url
ScanURL(h) ==
    \/ /\ Arrives(h)
       /\ \E url \in URLBodies :
             IF ~Truthy(url) \/ url.kind # "string"
             THEN Reject(h, "url", url, Undefined, "URL is required")
             ELSE AwaitPatterns(h, "url", url, Undefined)
    \/ /\ At(h, "url", "awaitPatterns")
       /\ AnalyzeAndSave(h, handlers[h].body.str)
    \/ /\ At(h, "url", "awaitScan")
       /\ Respond(h)

\* POST /api/scan/sms
ScanSMS(h) ==
    \/ /\ Arrives(h)
       /\ \E text \in TextBodies :
             IF ~Truthy(text) \/ text.kind # "string"
             THEN Reject(h, "sms", text, Undefined, "SMS text is required")
             ELSE AwaitPatterns(h, "sms", text, Undefined)
    \/ /\ At(h, "sms", "awaitPatterns")
       /\ AnalyzeAndSave(h, ToLowerCase(handlers[h].body.str))
    \/ /\ At(h, "sms", "awaitScan")
       /\ Respond(h)

\* POST /api/scan/qr
ScanQR(h) ==
    \/ /\ Arrives(h)
       /\ \E decodedText \in TextBodies :
             IF ~Truthy(decodedText) \/ decodedText.kind # "string"
             THEN Reject(h, "qr", decodedText, Undefined, "Decoded QR text is required")
             ELSE AwaitPatterns(h, "qr", decodedText, Undefined)
    \/ /\ At(h, "qr", "awaitPatterns")
       /\ AnalyzeAndSave(h, ToLowerCase(handlers[h].body.str))
    \/ /\ At(h, "qr", "awaitScan")
       /\ Respond(h)

\* POST /api/scan/apk
ScanAPK(h) ==
    \/ /\ Arrives(h)
       /\ \E apk \in APKBodies :
             IF ~Truthy(apk[1]) \/ ~Truthy(apk[2])
             THEN Reject(h, "apk", apk[1], apk[2],
                         "App name and extracted strings are required")
             ELSE AwaitPatterns(h, "apk", apk[1], apk[2])
    \/ /\ At(h, "apk", "awaitPatterns")
       /\ AnalyzeAndSave(h, ToLowerCase(TemplateString(handlers[h].body) \o " "
                                \o TemplateString(handlers[h].extractedStrings)))
    \/ /\ At(h, "apk", "awaitScan")
       /\ Respond(h)

\* POST /api/scan/call
ScanCall(h) ==
    \/ /\ Arrives(h)
       /\ \E transcript \in TextBodies :
             IF ~Truthy(transcript) \/ transcript.kind # "string"
             THEN Reject(h, "call", transcript, Undefined, "Call transcript is required")
             ELSE AwaitPatterns(h, "call", transcript, Undefined)
    \/ /\ At(h, "call", "awaitPatterns")
       /\ AnalyzeAndSave(h, ToLowerCase(handlers[h].body.str))
    \/ /\ At(h, "call", "awaitScan")
       /\ Respond(h)

\* the outcomes of the lookup and the heuristics for each phone number received
PhoneOutcomes ==
    [p \in {b.str : b \in {x \in PhoneBodies : x.kind = "string"}} |-> analyzePhone(p)]

\* POST /api/scan/phone, with the known-scammer table
ScanPhone(h) ==
    \/ /\ Arrives(h)
       /\ \E phoneNumber \in PhoneBodies :
             IF ~Truthy(phoneNumber) \/ phoneNumber.kind # "string"
             THEN Reject(h, "phone", phoneNumber, Undefined, "Phone number is required")
             ELSE \E outcome \in PhoneOutcomes[phoneNumber.str] :
                     SavePhone(h, phoneNumber, outcome)
    \/ /\ At(h, "phone", "awaitScan")
       /\ Respond(h)

\* parseInt(value): <<n>>, or <<>> for NaN; the digits after optional white
\* space and sign, up to the first other character
RECURSIVE DigitsValue(_)
DigitsValue(s) ==
    IF Len(s) = 0 THEN 0
    ELSE 10 * DigitsValue(SubSeq(s, 1, Len(s) - 1))
         + (CHOOSE d \in 0..9 : DigitChar(d) = CharAt(s, Len(s)))

LeadingDigits(s) ==
    SubSeq(s, 1, CHOOSE n \in 0..Len(s) :
                     /\ RunOf(s, 1, n, Digits)
                     /\ ~RunOf(s, 1, n + 1, Digits))

ParseInt(value) ==
    IF value.kind # "string" THEN <<>>
    ELSE LET text == TrimStart(value.str)
             negative == StartsWith(text, "-")
             digits == LeadingDigits(IF negative \/ StartsWith(text, "+")
                                     THEN SubSeq(text, 2, Len(text)) ELSE text)
         IN  IF Len(digits) = 0 THEN <<>>
             ELSE IF negative THEN <<0 - DigitsValue(digits)>>
             ELSE <<DigitsValue(digits)>>

\* parseInt(req.query.limit as string) || fallback
LimitOr(query, fallback) ==
    IF ParseInt(query) = <<>> \/ ParseInt(query) = <<0>> THEN fallback
    ELSE ParseInt(query)[1]

\* a handler suspends at an await with the value the awaited call returned
Await(h, type, body, pc, value) ==
    /\ handlers' = [handlers EXCEPT ![h] =
                       [IdleHandler EXCEPT !.pc = pc, !.type = type, !.body = body,
                                           !.result = <<value>>]]
    /\ UNCHANGED responses

\* res.json(value)
Send(h, value) ==
    /\ handlers' = [handlers EXCEPT ![h].pc = "done"]
    /\ responses' = [responses EXCEPT ![h] = Append(@, [status |-> 200, body |-> value])]

\* the request bodies insertReportSchema.parse is given: the schema accepts
\* the reports of the form and throws a ZodError for anything else
ReportBodies ==
    { Undefined,
      [kind |-> "report", type |-> "phone", content |-> "+91-9876543210",
       description |-> "asked for my OTP"] }

\* POST /api/report
SubmitReport(h) ==
    \/ /\ Arrives(h)
       /\ \E body \in ReportBodies :
             IF body.kind # "report"
             THEN Reject(h, "report", body, Undefined, "Invalid report data")
             ELSE \E date \in Dates :
                     /\ createReport(body, date)
                     /\ Await(h, "report", body, "awaitReport", NewReport(body, date))
                     /\ UNCHANGED <<binding, storeCall, scamPatterns, currentPatternId,
                                    scans, currentScanId, pureVars>>
    \/ /\ At(h, "report", "awaitReport")
       /\ Send(h, [id |-> handlers[h].result[1].id,
                   message |-> "Report submitted successfully",
                   timestamp |-> handlers[h].result[1].timestamp])
       /\ UNCHANGED <<binding, storeCall, storeVars, pureVars>>

LimitQueries == {Undefined, Str("1")}

\* GET /api/scans/recent
RecentScans(h) ==
    \/ /\ Arrives(h)
       /\ \E limit \in LimitQueries :
             Await(h, "recent", limit, "awaitRecent", getRecentScans(LimitOr(limit, 10)))
       /\ UNCHANGED <<binding, storeCall, storeVars, pureVars>>
    \/ /\ At(h, "recent", "awaitRecent")
       /\ Send(h, handlers[h].result[1])
       /\ UNCHANGED <<binding, storeCall, storeVars, pureVars>>

\* GET /api/stats; getScanStats reads the clock
ScanStats(h) ==
    \/ /\ Arrives(h)
       /\ \E date \in Dates : \E today \in 0..date :
             /\ now' = date
             /\ Await(h, "stats", Undefined, "awaitStats", getScanStats(today))
       /\ UNCHANGED <<binding, storeCall, scamPatterns, currentPatternId, scans,
                      currentScanId, reports, currentReportId, pureVars>>
    \/ /\ At(h, "stats", "awaitStats")
       /\ Send(h, handlers[h].result[1])
       /\ UNCHANGED <<binding, storeCall, storeVars, pureVars>>

\* GET /api/reports
Reports(h) ==
    \/ /\ Arrives(h)
       /\ \E limit \in LimitQueries :
             Await(h, "reports", limit, "awaitReports", getReports(LimitOr(limit, 20)))
       /\ UNCHANGED <<binding, storeCall, storeVars, pureVars>>
    \/ /\ At(h, "reports", "awaitReports")
       /\ Send(h, handlers[h].result[1])
       /\ UNCHANGED <<binding, storeCall, storeVars, pureVars>>

\* what threatIntelligence.lookupPhoneNumber can resolve to: no source, or
\* sources that know the number
ThreatAnalyses(phoneNumber) ==
    { [phoneNumber |-> phoneNumber, riskLevel |-> "safe", confidence |-> 10,
       sources |-> <<>>, lastChecked |-> now],
      [phoneNumber |-> phoneNumber, riskLevel |-> "dangerous", confidence |-> 90,
       sources |-> << [source |-> "Community", details |-> "Loan Fraud",
                       fraudType |-> "Loan Fraud", reportCount |-> 342,
                       lastSeen |-> "2 hours ago", verified |-> TRUE,
                       confidence |-> 90] >>,
       lastChecked |-> now] }

\* the response the threat-intelligence phone handler builds from an analysis
ThreatResponse(analysis, date) ==
    [id |-> date,
     verdict |-> analysis.riskLevel,
     confidence |-> analysis.confidence,
     riskFactors |->
         IF Len(analysis.sources) > 0
         THEN [k \in 1..Len(analysis.sources) |->
                  analysis.sources[k].source \o ": " \o analysis.sources[k].details]
         ELSE <<"No threat intelligence found", "Number appears safe">>,
     timestamp |-> analysis.lastChecked,
     scammerData |->
         IF Len(analysis.sources) > 0
         THEN << [number |-> analysis.phoneNumber,
                  type |-> analysis.sources[1].fraudType,
                  reports |-> analysis.sources[1].reportCount,
                  lastSeen |-> analysis.sources[1].lastSeen,
                  verified |-> \E k \in 1..Len(analysis.sources) :
                                  analysis.sources[k].verified] >>
         ELSE <<>>,
     threatIntelligence |->
         [sourcesChecked |-> Len(analysis.sources),
          lastUpdated |-> analysis.lastChecked,
          multiSourceVerification |-> Len(analysis.sources) > 1]]

\* POST /api/scan/phone, with the threat intelligence lookup
ScanPhoneThreatIntelligence(h) ==
    \/ /\ Arrives(h)
       /\ \E phoneNumber \in {Undefined, Str("+91-9876543210")} :
             IF ~Truthy(phoneNumber) \/ phoneNumber.kind # "string"
             THEN Reject(h, "phoneLookup", phoneNumber, Undefined,
                         "Phone number is required")
             ELSE /\ handlers' = [handlers EXCEPT ![h] =
                                     [IdleHandler EXCEPT !.pc = "awaitImport",
                                                         !.type = "phoneLookup",
                                                         !.body = phoneNumber]]
                  /\ UNCHANGED <<binding, storeCall, storeVars, responses, pureVars>>
    \/ /\ At(h, "phoneLookup", "awaitImport")
       /\ handlers' = [handlers EXCEPT ![h].pc = "awaitLookup"]
       /\ UNCHANGED <<binding, storeCall, storeVars, responses, pureVars>>
    \* the lookup resolves, or it rejects and the catch clause answers
    \/ /\ At(h, "phoneLookup", "awaitLookup")
       /\ \E analysis \in ThreatAnalyses(handlers[h].body.str) : \E date \in Dates :
             /\ now' = date
             /\ handlers' = [handlers EXCEPT ![h].pc = "done",
                                             ![h].result = <<analysis>>]
             /\ responses' = [responses EXCEPT ![h] =
                                 Append(@, [status |-> 200,
                                            body |-> ThreatResponse(analysis, date)])]
       /\ UNCHANGED <<binding, storeCall, scamPatterns, currentPatternId, scans,
                      currentScanId, reports, currentReportId, pureVars>>
    \/ /\ At(h, "phoneLookup", "awaitLookup")
       /\ handlers' = [handlers EXCEPT ![h].pc = "done"]
       /\ responses' = [responses EXCEPT ![h] =
                           Append(@, [status |-> 500,
                                      body |-> [error |-> "Internal server error"]])]
       /\ UNCHANGED <<binding, storeCall, storeVars, pureVars>>

(***************************************************************************)
(* Specification of the scoring functions: Init draws the list L and the   *)
(* additional factor f, the actions call a scoring function on L and on    *)
(* L + [f].                                                                *)
(***************************************************************************)
Variants == {"tiered", "readme", "routes"}

\* risk-factor strings the analyzers, the registry and the README emit
Factors ==
    { "Claims to be from: rbi",
      "Requests sensitive info: otp",
      "Loan fraud indicator: instant",
      "No secure HTTPS connection",
      "URL shortener detected: bit.ly" }

FactorLists == UNION { [1..n -> Factors] : n \in 0..MaxFactors }

ClassifierIdle == confidence = <<>> /\ verdict = None

AnalyzersIdle == channel = None /\ input = "" /\ extracted = "" /\ repeated = <<>>

ScoringIdle ==
    /\ variant = None /\ riskFactors = <<>> /\ factor = None
    /\ scoreL = <<>> /\ scoreLf = <<>>

InitScore ==
    /\ variant \in Variants
    /\ riskFactors \in FactorLists
    /\ factor \in Factors
    /\ scoreL = <<>>
    /\ scoreLf = <<>>
    /\ ClassifierIdle
    /\ AnalyzersIdle
    /\ ServerIdle

TieredScore ==
    /\ variant = "tiered"
    /\ \E score \in calculateRiskScore(riskFactors) : scoreL' = <<score>>
    /\ UNCHANGED <<variant, riskFactors, factor, scoreLf, confidence, verdict, analyzerVars, serverVars>>

TieredScoreExtended ==
    /\ variant = "tiered"
    /\ \E score \in calculateRiskScore(Append(riskFactors, factor)) :
          scoreLf' = <<score>>
    /\ UNCHANGED <<variant, riskFactors, factor, scoreL, confidence, verdict, analyzerVars, serverVars>>

ReadmeScore ==
    /\ variant = "readme"
    /\ scoreL' = <<calculateRiskScoreReadme(riskFactors)>>
    /\ UNCHANGED <<variant, riskFactors, factor, scoreLf, confidence, verdict, analyzerVars, serverVars>>

ReadmeScoreExtended ==
    /\ variant = "readme"
    /\ scoreLf' = <<calculateRiskScoreReadme(Append(riskFactors, factor))>>
    /\ UNCHANGED <<variant, riskFactors, factor, scoreL, confidence, verdict, analyzerVars, serverVars>>

RoutesScore ==
    /\ variant = "routes"
    /\ scoreL' = <<calculateRiskScoreRoutes(riskFactors)>>
    /\ UNCHANGED <<variant, riskFactors, factor, scoreLf, confidence, verdict, analyzerVars, serverVars>>

RoutesScoreExtended ==
    /\ variant = "routes"
    /\ scoreLf' = <<calculateRiskScoreRoutes(Append(riskFactors, factor))>>
    /\ UNCHANGED <<variant, riskFactors, factor, scoreL, confidence, verdict, analyzerVars, serverVars>>

NextScore ==
    \/ TieredScore
    \/ TieredScoreExtended
    \/ ReadmeScore
    \/ ReadmeScoreExtended
    \/ RoutesScore
    \/ RoutesScoreExtended

SpecScore == InitScore /\ [][NextScore]_vars

(***************************************************************************)
(* Specification of the verdict thresholds: the threshold logic is applied *)
(* to every integer confidence of [0,100].                                 *)
(***************************************************************************)
InitClassify == ScoringIdle /\ ClassifierIdle /\ AnalyzersIdle /\ ServerIdle

Classify ==
    /\ \E c \in 0..100 :
          /\ confidence' = <<c>>
          /\ verdict' = classify(c)
    /\ UNCHANGED <<variant, riskFactors, scoringVars, analyzerVars, serverVars>>

NextClassify == Classify

SpecClassify == InitClassify /\ [][NextClassify]_vars

(***************************************************************************)
(* Specification of the analyzers: Init draws the analyzer, its input and  *)
(* the file it is taken from (server/scam-detector.ts or README.md); the   *)
(* action is the call, followed by the threshold logic of the handler.     *)
(***************************************************************************)
OTPTranscript == "Sir, I am calling from RBI. Please share your OTP immediately."

URLInputs ==
    { "", "http://bit.ly/abc123", "https://example.com",
      "http://192.168.1.1/login", "https://a.b.c.example.tk/x.ml",
      "http://10.0.0.1.tk/bit.ly.ml", "  https://example.com" }

SMSInputs ==
    { "", "URGENT: account will be blocked, click here bit.ly/x",
      "You won Rs. 5000, claim prize", "Pay 2 lakh now", "See you at 5" }

CallInputs ==
    { "", OTPTranscript, "Police here, pay the fine or face arrest",
      "Hello, how are you?" }

\* the contents detectScamPatterns is given
RegistryInputs == { ScamText, "Verify your KBC winner prize", "hello" }

\* <<appName, extractedStrings>>
APKInputs ==
    { <<"", "">>, <<"Instant Loan", "read contacts, send sms">>,
      <<"Rummy Cash Game", "daily bonus">>, <<"Calculator", "add subtract">>,
      <<"Calculator", "READ_CONTACTS SEND_SMS">> }

\* every entry of the table as written, as digits only, padded and bracketed,
\* and numbers that are not in the table
PhoneInputs ==
    UNION { {knownScamNumbers[k].number,
             RemoveNonDigits(knownScamNumbers[k].number),
             "  " \o knownScamNumbers[k].number \o " ",
             "(" \o knownScamNumbers[k].number \o ")"} : k \in 1..Len(knownScamNumbers) }
    \cup { "9876543210", "+91-9876543211", "9001234567", "90512345678",
           "14155550123", "+1 (415) 555-0123" }

AnalyzerInputs ==
         {<<"phone", x, "">> : x \in PhoneInputs}
    \cup {<<"url", x, "">> : x \in URLInputs}
    \cup {<<"sms", x, "">> : x \in SMSInputs}
    \cup {<<"call", x, "">> : x \in CallInputs}
    \cup {<<"apk", x[1], x[2]>> : x \in APKInputs}
    \cup {<<"registry", x, "">> : x \in RegistryInputs}

\* the scoring a call is paired with: the analyzers score by themselves, in
\* either printed form; detectScamPatterns is followed by calculateRiskScore,
\* the local pair of routes included
VariantsOf(ch) ==
    IF ch = "phone" THEN {None}
    ELSE IF ch = "registry" THEN {"tiered", "readme", "routes"}
    ELSE {"tiered", "readme"}

\* the factors a call of the analyzer returns for the input
FactorsOf(ch, v, text, strings) ==
    IF ch = "url" THEN analyzeURL(text)
    ELSE IF ch = "sms" THEN analyzeSMS(text)
    ELSE IF ch = "call" THEN analyzeCall(text)
    ELSE IF ch = "apk" THEN analyzeAPK(text, strings)
    ELSE IF v = "tiered" THEN detectScamPatterns(text, getScamPatterns(""))
    ELSE IF v = "routes" THEN detectScamPatternsRoutes(text, getScamPatterns(""))
    ELSE detectScamPatternsReadme(text, getScamPatterns("")).riskFactors

InitAnalyze ==
    /\ \E call \in AnalyzerInputs :
          /\ channel = call[1]
          /\ input = call[2]
          /\ extracted = call[3]
    /\ variant \in VariantsOf(channel)
    /\ repeated = <<>>
    /\ riskFactors = <<>>
    /\ confidence = <<>>
    /\ verdict = None
    /\ factor = None /\ scoreL = <<>> /\ scoreLf = <<>>
    /\ ServerIdle

\* the call returns the factors and one of the confidences the scoring
\* function can compute for them; the handler then derives the verdict
Return(factors) ==
    /\ confidence = <<>>
    /\ riskFactors' = factors
    /\ \E c \in Confidences(variant, factors) :
          /\ confidence' = <<c>>
          /\ verdict' = classify(c)
    /\ UNCHANGED <<variant, scoringVars, analyzerVars, serverVars>>

AnalyzeURL == channel = "url" /\ Return(FactorsOf("url", variant, input, extracted))

AnalyzeSMS == channel = "sms" /\ Return(FactorsOf("sms", variant, input, extracted))

AnalyzeCall == channel = "call" /\ Return(FactorsOf("call", variant, input, extracted))

AnalyzeAPK == channel = "apk" /\ Return(FactorsOf("apk", variant, input, extracted))

\* detectScamPatterns on the rules of the registry, then calculateRiskScore
DetectScamPatterns ==
    channel = "registry" /\ Return(FactorsOf("registry", variant, input, extracted))

\* the same analyzer is called once more with the same input, the registry
\* being the same: the jitter is drawn anew
AnalyzeAgain ==
    /\ channel \in {"url", "sms", "call", "apk", "registry"}
    /\ confidence # <<>>
    /\ repeated = <<>>
    /\ LET factors == FactorsOf(channel, variant, input, extracted)
       IN  \E c \in Confidences(variant, factors) :
              repeated' = <<[riskFactors |-> factors, confidence |-> c]>>
    /\ UNCHANGED <<variant, riskFactors, confidence, verdict, scoringVars,
                   channel, input, extracted, serverVars>>

\* the phone handler's lookup and heuristics: it scores and classifies itself
AnalyzePhone ==
    /\ channel = "phone"
    /\ confidence = <<>>
    /\ \E outcome \in analyzePhone(input) :
          /\ riskFactors' = outcome.riskFactors
          /\ confidence' = <<outcome.confidence>>
          /\ verdict' = outcome.verdict
    /\ UNCHANGED <<variant, scoringVars, analyzerVars, serverVars>>

NextAnalyze ==
    \/ AnalyzePhone
    \/ AnalyzeURL
    \/ AnalyzeSMS
    \/ AnalyzeCall
    \/ AnalyzeAPK
    \/ DetectScamPatterns
    \/ AnalyzeAgain

SpecAnalyze == InitAnalyze /\ [][NextAnalyze]_vars

(***************************************************************************)
(* Specification of the server: the constructed store and the scan         *)
(* handlers, whose steps interleave at their awaits.                       *)
(***************************************************************************)
PureIdle == ScoringIdle /\ ClassifierIdle /\ AnalyzersIdle

Init ==
    /\ binding \in {"imported", "local"}
    /\ InitStore
    /\ HandlersIdle
    /\ storeCall = NoCall
    /\ PureIdle

Next ==
    \E h \in Requests :
        \/ ScanURL(h)
        \/ ScanSMS(h)
        \/ ScanQR(h)
        \/ ScanAPK(h)
        \/ ScanCall(h)
        \/ ScanPhone(h)
        \/ ScanPhoneThreatIntelligence(h)
        \/ SubmitReport(h)
        \/ RecentScans(h)
        \/ ScanStats(h)
        \/ Reports(h)

Spec == Init /\ [][Next]_vars

\* the steps of the handler of request h
Serve(h) ==
    \/ ScanURL(h)
    \/ ScanSMS(h)
    \/ ScanQR(h)
    \/ ScanAPK(h)
    \/ ScanCall(h)
    \/ ScanPhone(h)
    \/ ScanPhoneThreatIntelligence(h)
    \/ SubmitReport(h)
    \/ RecentScans(h)
    \/ ScanStats(h)
    \/ Reports(h)

\* the steps of the handler of request h other than the analysis that follows
\* await storage.getScamPatterns()
Resume(h) == handlers[h].pc # "awaitPatterns" /\ Serve(h)

\* the promises a handler awaits settle and the event loop then runs its
\* continuation: no handler that can take a step waits forever. The analysis
\* continuation is enabled exactly while the handler is at awaitPatterns and
\* leaves that place, so its weak fairness is that the handler is infinitely
\* often elsewhere
SpecLive ==
    /\ Spec
    /\ \A h \in Requests :
          /\ WF_vars(Resume(h))
          /\ []<>(handlers[h].pc # "awaitPatterns")

(***************************************************************************)
(* Specifications of the store used directly, on the constructed store.    *)
(* SpecRegistry: any sequence of createScamPattern and getScamPatterns     *)
(* calls, of writes to the rules they returned, and of README.md's         *)
(* registry cross-check on the rules the registry holds. SpecScans: any    *)
(* sequence of createScan and getRecentScans calls.                        *)
(***************************************************************************)
InitStorage ==
    /\ binding = None
    /\ InitStore
    /\ HandlersIdle
    /\ storeCall = NoCall
    /\ PureIdle

\* the rules a caller adds: well-formed, with an empty pattern, malformed
NewPatterns ==
    { InsertScamPattern("lottery", "lucky draw", 80, "Lucky draw scam"),
      InsertScamPattern("loan", "", 50, "Rule without pattern"),
      InsertScamPattern("phishing", "(verify", 60, "Unclosed group") }

Categories == {"", "loan", "lottery", "crypto"}

InsertScans ==
    { [type |-> "sms", content |-> Str("hello"), verdict |-> "safe", confidence |-> 5,
       riskFactors |-> <<>>],
      [type |-> "url", content |-> Str("http://bit.ly/abc123"), verdict |-> "suspicious",
       confidence |-> 45, riskFactors |-> <<"Guaranteed winning">>] }

StoreContents == {"Verify your KBC winner prize", "hello"}

UsesStore == UNCHANGED <<binding, handlers, responses, pureVars>>

CreateScamPattern ==
    /\ Len(scamPatterns) < Len(defaultPatterns) + MaxPatterns
    /\ \E insertPattern \in NewPatterns :
          LET store == createScamPattern([scamPatterns |-> scamPatterns,
                                          currentPatternId |-> currentPatternId],
                                         insertPattern)
          IN  /\ scamPatterns' = store.scamPatterns
              /\ currentPatternId' = store.currentPatternId
              /\ storeCall' = [op |-> "createScamPattern", argument |-> insertPattern,
                               result |-> store.scamPatterns[Len(store.scamPatterns)]]
    /\ UNCHANGED <<scans, currentScanId, reports, currentReportId, now>>
    /\ UsesStore

GetScamPatterns ==
    /\ \E category \in Categories :
          storeCall' = [op |-> "getScamPatterns", argument |-> category,
                        result |-> getScamPatterns(category)]
    /\ UNCHANGED storeVars
    /\ UsesStore

\* the caller assigns to a field of the rule it was returned, or of the
\* first rule of the array it was returned: the value is the object the Map
\* holds, not a copy
WriteReturned ==
    /\ \/ storeCall.op = "createScamPattern"
       \/ storeCall.op = "getScamPatterns" /\ Len(storeCall.result) > 0
    /\ \E id \in {IF storeCall.op = "createScamPattern" THEN storeCall.result.id
                   ELSE storeCall.result[1].id} :
          /\ scamPatterns' = [k \in 1..Len(scamPatterns) |->
                                 IF scamPatterns[k].id = id
                                 THEN [scamPatterns[k] EXCEPT !.description = "tampered"]
                                 ELSE scamPatterns[k]]
          /\ storeCall' = [op |-> "write", argument |-> id, result |-> id]
    /\ UNCHANGED <<currentPatternId, scans, currentScanId, reports, currentReportId, now>>
    /\ UsesStore

CreateScan ==
    /\ Len(scans) < MaxScans
    /\ \E insertScan \in InsertScans : \E date \in Dates :
          /\ createScan(insertScan, date)
          /\ storeCall' = [op |-> "createScan", argument |-> insertScan,
                           result |-> NewScan(insertScan, date)]
    /\ UNCHANGED <<scamPatterns, currentPatternId, reports, currentReportId>>
    /\ UsesStore

GetRecentScans ==
    /\ \E limit \in 0..(MaxScans + 1) :
          storeCall' = [op |-> "getRecentScans", argument |-> limit,
                        result |-> getRecentScans(limit)]
    /\ UNCHANGED storeVars
    /\ UsesStore

\* README.md's detectScamPatterns on the rules getScamPatterns() returns
DetectReadme ==
    /\ \E content \in StoreContents :
          storeCall' = [op |-> "detectScamPatterns", argument |-> content,
                        result |-> detectScamPatternsReadme(content, getScamPatterns(""))]
    /\ UNCHANGED storeVars
    /\ UsesStore

NextRegistry ==
    \/ CreateScamPattern
    \/ GetScamPatterns
    \/ WriteReturned
    \/ DetectReadme

SpecRegistry == InitStorage /\ [][NextRegistry]_vars

NextScans ==
    \/ CreateScan
    \/ GetRecentScans

SpecScans == InitStorage /\ [][NextScans]_vars

(***************************************************************************)
(* C1. Boundedness of the tiered-random scoring function: whatever the     *)
(* risk-factor list and the random jitter, calculateRiskScore returns an   *)
(* integer between 5 and 95.                                               *)
(***************************************************************************)
C1_Bounded ==
    variant = "tiered" =>
        /\ scoreL # <<>> => (scoreL[1] \in Int /\ 5 <= scoreL[1] /\ scoreL[1] <= 95)
        /\ scoreLf # <<>> => (scoreLf[1] \in Int /\ 5 <= scoreLf[1] /\ scoreLf[1] <= 95)

\* a three-factor list with all bonuses: the clamp at 95 has acted
C1_Witness ==
    /\ variant = "tiered"
    /\ Len(riskFactors) = 3
    /\ Bonus(riskFactors) > 15
    /\ scoreL = <<95>>
    /\ scoreLf = <<95>>

(***************************************************************************)
(* C2. Monotonicity of the tiered-random scoring function: every value     *)
(* calculateRiskScore(L + [f]) can return is at least every value          *)
(* calculateRiskScore(L) can return, also for three or more factors.       *)
(***************************************************************************)
C2_Monotone ==
    (variant = "tiered" /\ scoreL # <<>> /\ scoreLf # <<>>) => scoreLf[1] >= scoreL[1]

(***************************************************************************)
(* C3. Monotonicity of the keyword-weighted scoring function (README.md):  *)
(* calculateRiskScore(L + [f]) >= calculateRiskScore(L) for every list L,  *)
(* the empty one included, and every factor f, weighted or not.            *)
(***************************************************************************)
C3_MonotoneReadme ==
    (variant = "readme" /\ scoreL # <<>> /\ scoreLf # <<>>) => scoreLf[1] >= scoreL[1]

(***************************************************************************)
(* C4. Zero-factor floor: in each of the three scoring functions the score *)
(* of the empty list is never the maximum of the range and is below 40, so *)
(* it is classified safe.                                                  *)
(***************************************************************************)
ScoreRangeMax(v) == IF v = "readme" THEN 100 ELSE 95

C4_ZeroFactorFloor ==
    (riskFactors = <<>> /\ scoreL # <<>>) =>
        /\ scoreL[1] # ScoreRangeMax(variant)
        /\ scoreL[1] < 40
        /\ classify(scoreL[1]) = "safe"

\* the empty list scored by the tiered-random function with the largest jitter
C4_Witness == variant = "tiered" /\ riskFactors = <<>> /\ scoreL = <<14>>

(***************************************************************************)
(* C5. Verdict partition: every integer confidence of [0,100] gets exactly *)
(* one verdict: dangerous iff c >= 70, suspicious iff 40 <= c <= 69, safe  *)
(* iff c <= 39.                                                            *)
(***************************************************************************)
C5_VerdictPartition ==
    confidence # <<>> =>
        /\ verdict \in {"safe", "suspicious", "dangerous"}
        /\ (verdict = "dangerous") <=> (confidence[1] >= 70)
        /\ (verdict = "suspicious") <=> (40 <= confidence[1] /\ confidence[1] <= 69)
        /\ (verdict = "safe") <=> (confidence[1] <= 39)

\* the boundary 70 has been classified
C5_Witness == confidence = <<70>> /\ verdict = "dangerous"

(***************************************************************************)
(* C7. Empty content: analyzeURL(""), analyzeSMS(""), analyzeCall("") and  *)
(* analyzeAPK("", "") each return no risk factor and the zero-factor       *)
(* baseline confidence, so the verdict is safe.                            *)
(***************************************************************************)
C7_EmptyContent ==
    (input = "" /\ extracted = "" /\ confidence # <<>>) =>
        /\ riskFactors = <<>>
        /\ confidence[1] \in Confidences(variant, <<>>)
        /\ verdict = "safe"

(***************************************************************************)
(* C8. Shortened HTTP URL: analyzeURL("http://bit.ly/abc123") returns the  *)
(* bit.ly shortener factor and the missing-HTTPS factor, and under both    *)
(* scoring variants and every jitter the confidence is at least 40: the    *)
(* verdict is suspicious or dangerous, never safe.                         *)
(***************************************************************************)
InRiskFactors(f) == \E k \in 1..Len(riskFactors) : riskFactors[k] = f

C8_ShortenedURL ==
    (channel = "url" /\ input = "http://bit.ly/abc123" /\ confidence # <<>>) =>
        /\ InRiskFactors("Suspicious domain: bit.ly")
        /\ InRiskFactors("No secure HTTPS connection")
        /\ confidence[1] >= 40
        /\ verdict \in {"suspicious", "dangerous"}

(***************************************************************************)
(* C9. OTP call: analyzeCall on the RBI/OTP transcript returns at least    *)
(* two risk factors, among them the authority factor for rbi and the       *)
(* sensitive-info factor for otp, and under both scoring variants and      *)
(* every jitter the verdict is suspicious or dangerous, never safe.        *)
(***************************************************************************)
C9_OTPCall ==
    (channel = "call" /\ input = OTPTranscript /\ confidence # <<>>) =>
        /\ Len(riskFactors) >= 2
        /\ InRiskFactors("Claims to be from: rbi")
        /\ InRiskFactors("Requests sensitive info: otp")
        /\ verdict \in {"suspicious", "dangerous"}

(***************************************************************************)
(* C6. The same thresholds govern every channel: every Scan the url, sms,  *)
(* qr, apk, call and phone handlers have stored has the verdict the 70/40  *)
(* thresholds give its confidence, the phone handler's directly assigned   *)
(* verdicts included.                                                      *)
(***************************************************************************)
C6_StoredVerdict ==
    \A k \in 1..Len(scans) :
        scans[k].verdict = (IF scans[k].confidence >= 70 THEN "dangerous"
                            ELSE IF scans[k].confidence >= 40 THEN "suspicious"
                            ELSE "safe")

\* a phone scan with both prefix heuristics and a registry scan are stored
C6_Witness ==
    \E j, k \in 1..Len(scans) :
        /\ scans[j].type = "phone"
        /\ Len(scans[j].riskFactors) = 2
        /\ scans[j].verdict = "suspicious"
        /\ scans[j].confidence = 65
        /\ scans[k].type = "sms"
        /\ scans[k].verdict = "dangerous"

(***************************************************************************)
(* C10. Known scam phone number: for every entry of the known-scammer      *)
(* table and every input that matches it, the phone handler yields the     *)
(* verdict dangerous, the confidence min(85 + floor(reports/10), 95),      *)
(* which lies in [85,95], and a risk factor with the entry's report count  *)
(* and fraud category.                                                     *)
(***************************************************************************)
C10_KnownScammer ==
    (channel = "phone" /\ confidence # <<>>) =>
        \A k \in 1..Len(knownScamNumbers) :
            LET entry == knownScamNumbers[k]
                capped == IF 85 + entry.reports \div 10 < 95
                          THEN 85 + entry.reports \div 10 ELSE 95
            IN  (\/ entry.number = Trim(input)
                 \/ RemoveNonDigits(entry.number) = RemoveNonDigits(input)) =>
                    /\ verdict = "dangerous"
                    /\ confidence[1] = capped
                    /\ 85 <= confidence[1] /\ confidence[1] <= 95
                    /\ \E f \in 1..Len(riskFactors) :
                          /\ Includes(riskFactors[f], NumberToString(entry.reports))
                          /\ Includes(riskFactors[f], entry.type)

\* the entry with 342 reports, given as digits only: the cap at 95 has acted
C10_Witness ==
    /\ channel = "phone"
    /\ input = "919876543210"
    /\ verdict = "dangerous"
    /\ confidence = <<95>>
    /\ riskFactors[1] = "Reported 342 times for Loan Fraud"


(***************************************************************************)
(* C11: getScamPatterns(category?) returns exactly the rules of the        *)
(* registry, those of the category when one is given, in insertion order,  *)
(* and leaves the registry as it was; two consecutive calls with the same  *)
(* argument, no createScamPattern between them, return the same sequence.  *)
(***************************************************************************)
\* result holds the rules of registry with the category ("" for none), each
\* once, in the order of their places in registry
IsReadOf(result, registry, category) ==
    LET places == {k \in 1..Len(registry) :
                      category = "" \/ registry[k].category = category}
    IN  /\ Len(result) = Cardinality(places)
        /\ \A i \in 1..Len(result) :
              \E k \in places :
                 /\ Cardinality({j \in places : j < k}) = i - 1
                 /\ result[i] = registry[k]

\* the registry and the last store call as a read shows it: the argument and
\* the result of a getScamPatterns call, nothing of any other call
RegistryAndRead ==
    <<scamPatterns, currentPatternId, storeCall.op,
      IF storeCall.op = "getScamPatterns"
      THEN <<storeCall.argument, storeCall.result>>
      ELSE <<>>>>

C11_RegistryRead ==
    [][storeCall'.op = "getScamPatterns" =>
          /\ scamPatterns' = scamPatterns
          /\ currentPatternId' = currentPatternId
          /\ IsReadOf(storeCall'.result, scamPatterns, storeCall'.argument)
          /\ (storeCall.op = "getScamPatterns"
                 /\ storeCall.argument = storeCall'.argument
              => storeCall'.result = storeCall.result)]_RegistryAndRead

\* the lottery rules are read after a caller added a fourth one
C11_Witness ==
    /\ storeCall.op = "getScamPatterns"
    /\ storeCall.argument = "lottery"
    /\ Len(storeCall.result) = 4
    /\ storeCall.result[4].pattern = "lucky draw"
    /\ Len(scamPatterns) = Len(defaultPatterns) + 1

(***************************************************************************)
(* C12: createScamPattern fails for a rule whose pattern is empty and      *)
(* leaves the registry and the id counter as they were, so that no rule of *)
(* the registry ever has an empty pattern.                                 *)
(***************************************************************************)
C12_NoEmptyPattern ==
    \A k \in 1..Len(scamPatterns) : scamPatterns[k].pattern # ""

(***************************************************************************)
(* C13: the ids the store assigns are unique and strictly increasing in    *)
(* the order of creation, whatever the interleaving of the handlers that   *)
(* call createScan, createReport and createScamPattern: no record takes    *)
(* the place of another, and the store holds as many records as create     *)
(* calls have completed.                                                   *)
(***************************************************************************)
\* the ids of the records are distinct, increase along the Map and lie
\* below the counter
IdsIncrease(records, counter) ==
    /\ \A i, j \in 1..Len(records) : i < j => records[i].id < records[j].id
    /\ \A i \in 1..Len(records) : records[i].id >= 1 /\ records[i].id < counter

\* the createScan calls the handlers have completed, as <<handler, call>>
CompletedScanCalls ==
    {c \in Requests \X (1..MaxRequests) : c[2] <= Len(handlers[c[1]].scan)}

\* the handlers whose createReport call has completed
CompletedReportCalls ==
    {h \in Requests : handlers[h].type = "report" /\ handlers[h].result # <<>>}

C13_UniqueIncreasingIds ==
    /\ IdsIncrease(scans, currentScanId)
    /\ IdsIncrease(reports, currentReportId)
    /\ IdsIncrease(scamPatterns, currentPatternId)
    /\ Len(scans) = Cardinality(CompletedScanCalls)
    /\ Len(reports) = Cardinality(CompletedReportCalls)
    /\ \A c \in CompletedScanCalls :
          \E i \in 1..Len(scans) : scans[i] = handlers[c[1]].scan[c[2]]
    /\ \A h \in CompletedReportCalls :
          \E i \in 1..Len(reports) : reports[i] = handlers[h].result[1]

\* two handlers in flight at once: the one that arrived second stored its
\* scan first
C13_Witness ==
    /\ Len(scans) = 2
    /\ Len(handlers[1].scan) = 1 /\ handlers[1].scan[1].id = 2
    /\ Len(handlers[2].scan) = 1 /\ handlers[2].scan[1].id = 1
    /\ scans[1].id = 1 /\ scans[2].id = 2

(***************************************************************************)
(* C14: the rules the store returns are immutable: a caller that writes to *)
(* a ScamPattern it got from getScamPatterns or createScamPattern, or to   *)
(* the returned array, cannot change what a later getScamPatterns call     *)
(* returns.                                                                *)
(***************************************************************************)
C14_ReturnedImmutable ==
    [][storeCall'.op = "write" =>
          \A category \in Categories :
             getScamPatterns(category)' = getScamPatterns(category)]_vars

(***************************************************************************)
(* C15: every scan request that is answered with a verdict, whatever its   *)
(* channel (url, sms, qr, apk, call, phone), has created exactly one Scan, *)
(* which carries the channel, the content of the request, the verdict, the *)
(* confidence and the risk factors of the answer.                          *)
(***************************************************************************)
ScanTypes == {"url", "sms", "qr", "apk", "call", "phone", "phoneLookup"}

\* the handlers that have answered a scan request with a verdict
AnsweredScans ==
    {h \in Requests : /\ handlers[h].type \in ScanTypes
                      /\ Len(responses[h]) > 0
                      /\ responses[h][1].status = 200}

C15_OneScanPerRequest ==
    \A h \in AnsweredScans :
       /\ Len(responses[h]) = 1
       /\ Len(handlers[h].scan) = 1
       /\ \E i \in 1..Len(scans) :
             /\ scans[i] = handlers[h].scan[1]
             /\ scans[i].type \in {handlers[h].type, "phone"}
             /\ scans[i].content = handlers[h].body
             /\ scans[i].verdict = responses[h][1].body.verdict
             /\ scans[i].confidence = responses[h][1].body.confidence
             /\ scans[i].riskFactors = responses[h][1].body.riskFactors

(***************************************************************************)
(* C17: a scan handler answers only after its createScan call has          *)
(* completed: whenever a success response has been sent, the store holds a *)
(* Scan whose id and timestamp are those of the response and whose         *)
(* verdict, confidence and risk factors equal the ones in the response,    *)
(* under every interleaving of the handlers.                               *)
(***************************************************************************)
C17_PersistBeforeRespond ==
    \A h \in AnsweredScans :
       \E i \in 1..Len(scans) :
          /\ scans[i].id = responses[h][1].body.id
          /\ scans[i].timestamp = responses[h][1].body.timestamp
          /\ scans[i].verdict = responses[h][1].body.verdict
          /\ scans[i].confidence = responses[h][1].body.confidence
          /\ scans[i].riskFactors = responses[h][1].body.riskFactors

(***************************************************************************)
(* C16: getRecentScans(n), n >= 0, returns min(n, number of stored scans)  *)
(* records, the most recently created ones, a scan created after another   *)
(* always before it, also when both carry the same timestamp.              *)
(***************************************************************************)
C16_MostRecentFirst ==
    storeCall.op = "getRecentScans" =>
       LET result == storeCall.result
           count == IF storeCall.argument < Len(scans) THEN storeCall.argument
                    ELSE Len(scans)
       IN  /\ Len(result) = count
           /\ \A i \in 1..Len(result) :
                 \E k \in (Len(scans) - count + 1)..Len(scans) : result[i] = scans[k]
           /\ \A i, j \in 1..Len(result) : i < j => result[i].id > result[j].id

C19_RegistryIsSeed ==
    /\ Len(defaultPatterns) = 18
    /\ Len(scamPatterns) = 18
    /\ currentPatternId = 19
    /\ \A k \in 1..18 :
          scamPatterns[k] = [id |-> k,
                             category |-> defaultPatterns[k].category,
                             pattern |-> defaultPatterns[k].pattern,
                             weight |-> defaultPatterns[k].weight,
                             description |-> defaultPatterns[k].description]

\* a scan that matched rules of the registry has been stored and answered,
\* and a report has been stored
C19_Witness ==
    /\ Len(scans) = 1 /\ Len(scans[1].riskFactors) > 0
    /\ Len(reports) = 1
    /\ \E h \in Requests :
          /\ handlers[h].pc = "done" /\ handlers[h].type = "sms"
          /\ Len(handlers[h].patterns) = 18
    /\ scamPatterns[1].pattern = "instant loan"

(***************************************************************************)
(* C20: a rule that fails is isolated: with a rule in the registry whose   *)
(* pattern is not a well-formed regular expression, the regex variant of   *)
(* detectScamPatterns skips that rule and still returns the factors of the *)
(* well-formed rules that match.                                           *)
(***************************************************************************)
\* the rules of the list whose pattern compiles
WellFormed(patterns) ==
    SelectSeq(patterns, LAMBDA pattern : ~RegExpThrows(pattern.pattern))

C20_MalformedRuleSkipped ==
    storeCall.op = "detectScamPatterns" =>
       /\ ~storeCall.result.threw
       /\ storeCall.result.riskFactors
             = detectScamPatternsReadme(storeCall.argument,
                                        WellFormed(scamPatterns)).riskFactors

(***************************************************************************)
(* C25: tier and bonus arithmetic of the tiered-random scoring function:   *)
(* for a non-empty list the result is clamp(base + bonus, 5, 95), with the *)
(* base in [35,54] for one factor, [55,79] for two and [80,94] for three   *)
(* or more, and the bonus the sum of +10 for 'instant loan' or 'guaranteed *)
(* win', +15 for 'rbi' or 'bank security' and +12 for 'upi pin' or 'otp'   *)
(* in the space-joined lowercased factor text; for the empty list the      *)
(* result lies in [5,14].                                                  *)
(***************************************************************************)
\* one of the phrases occurs in the space-joined lowercased factor text
Mentions(factors, phrases) ==
    \E phrase \in phrases : Includes(ToLowerCase(Join(factors, " ")), phrase)

\* the results the tier and bonus table allows for the list
TierTable(factors) ==
    LET base == IF Len(factors) = 1 THEN 35..54
                ELSE IF Len(factors) = 2 THEN 55..79
                ELSE 80..94
        bonus ==   (IF Mentions(factors, {"instant loan", "guaranteed win"})
                    THEN 10 ELSE 0)
                 + (IF Mentions(factors, {"rbi", "bank security"}) THEN 15 ELSE 0)
                 + (IF Mentions(factors, {"upi pin", "otp"}) THEN 12 ELSE 0)
    IN  IF Len(factors) = 0 THEN 5..14
        ELSE {IF b + bonus > 95 THEN 95 ELSE IF b + bonus < 5 THEN 5 ELSE b + bonus :
                 b \in base}

C25_TierAndBonus ==
    variant = "tiered" =>
        /\ scoreL # <<>> => scoreL[1] \in TierTable(riskFactors)
        /\ scoreLf # <<>> => scoreLf[1] \in TierTable(Append(riskFactors, factor))

\* one factor naming the RBI with the largest jitter, 54 + 15; with the OTP
\* factor added, two factors with the largest jitter, 79 + 15 + 12 clamped
C25_Witness ==
    /\ variant = "tiered"
    /\ riskFactors = <<"Claims to be from: rbi">>
    /\ factor = "Requests sensitive info: otp"
    /\ scoreL = <<69>>
    /\ scoreLf = <<95>>

(***************************************************************************)
(* C30: order-independence of the tiered-random score: a risk-factor list  *)
(* and any permutation of it have the same set of possible results of      *)
(* calculateRiskScore; the bonuses depend only on the phrases inside the   *)
(* individual factors, not on a phrase formed across the boundary of two   *)
(* adjacent factors of the space-joined text.                              *)
(***************************************************************************)
\* every score returned for L + [f] is a possible result for its permutation
\* [f] + L
C30_OrderIndependent ==
    (variant = "tiered" /\ scoreLf # <<>>) =>
        scoreLf[1] \in calculateRiskScore(<<factor>> \o riskFactors)

(***************************************************************************)
(* C28: in the keyword-weighted variant (README.md) the confidence that    *)
(* analyzeURL, analyzeSMS, analyzeCall and analyzeAPK return is 10 when no *)
(* risk factor is found and 0 whenever at least one is found, since no     *)
(* factor these analyzers emit matches a weighted category; the verdict    *)
(* derived from them is safe for every input.                              *)
(***************************************************************************)
C28_ReadmeAnalyzersSafe ==
    (variant = "readme" /\ channel \in {"url", "sms", "call", "apk"}) =>
        /\ confidence # <<>> =>
              /\ confidence[1] = (IF riskFactors = <<>> THEN 10 ELSE 0)
              /\ verdict = "safe"
        /\ repeated # <<>> =>
              repeated[1].confidence = (IF repeated[1].riskFactors = <<>> THEN 10 ELSE 0)

\* the OTP call: two factors found, confidence 0, verdict safe
C28_Witness ==
    /\ variant = "readme" /\ channel = "call" /\ input = OTPTranscript
    /\ riskFactors = <<"Claims to be from: rbi", "Requests sensitive info: otp">>
    /\ confidence = <<0>>
    /\ verdict = "safe"

(***************************************************************************)
(* C24: zero or one factor per check: each of the four checks of           *)
(* analyzeURL (suspicious domain or shortener, IPv4 literal, more than 3   *)
(* dots, missing https:// prefix) contributes at most one risk factor, so  *)
(* analyzeURL never returns more than four risk factors, also for a URL    *)
(* that contains several entries of the suspicious-domain list.            *)
(***************************************************************************)
\* the factors of the list that the suspicious-domain check pushed
DomainFactors(factors) ==
    SelectSeq(factors, LAMBDA f : StartsWith(f, "Suspicious domain: "))

C24_OneFactorPerCheck ==
    (channel = "url" /\ confidence # <<>>) =>
        /\ Len(DomainFactors(riskFactors)) <= 1
        /\ Len(riskFactors) <= 4

(***************************************************************************)
(* C23: normalization invariance: for analyzeURL, analyzeSMS, analyzeCall  *)
(* and analyzeAPK, two inputs that are equal after lowercasing and         *)
(* trimming surrounding whitespace produce the same list of risk factors;  *)
(* changing the letter case of the APK extracted strings, or adding        *)
(* leading whitespace to a URL, does not change the result.                *)
(***************************************************************************)
\* s.toLowerCase().trim()
Normalized(s) == Trim(ToLowerCase(s))

\* the factors returned for the input are those returned for its normal form
C23_NormalizationInvariant ==
    (channel \in {"url", "sms", "call", "apk"} /\ confidence # <<>>) =>
        riskFactors = FactorsOf(channel, variant, Normalized(input), Normalized(extracted))

(***************************************************************************)
(* C22: registry cross-check: for any content and any registry,            *)
(* detectScamPatterns returns, in registry order, exactly one risk factor  *)
(* per rule whose pattern occurs in the content when both are compared     *)
(* case-insensitively; the factor is the rule's description, or the raw    *)
(* pattern when the description is absent or empty. This holds for every   *)
(* caller, the URL handler that passes the URL as submitted included.      *)
(***************************************************************************)
\* the rules whose pattern occurs in the content, letter case ignored
MatchingRules(content, patterns) ==
    SelectSeq(patterns,
              LAMBDA pattern : Includes(ToLowerCase(content), ToLowerCase(pattern.pattern)))

\* factors is the list of the descriptions of the matching rules, in order
IsCrossCheckOf(factors, content, patterns) ==
    LET rules == MatchingRules(content, patterns)
    IN  /\ Len(factors) = Len(rules)
        /\ \A k \in 1..Len(rules) :
              factors[k] = (IF rules[k].description \in {"", None}
                            THEN rules[k].pattern ELSE rules[k].description)

C22_CrossCheck ==
    (channel = "registry" /\ variant \in {"tiered", "routes"} /\ confidence # <<>>) =>
        IsCrossCheckOf(riskFactors, input, scamPatterns)

(***************************************************************************)
(* C26: a phone number that is not in the scammer table is never           *)
(* classified dangerous: it is suspicious exactly when at least one prefix *)
(* heuristic fires (digits start with 900 or 905; more than 10 digits and  *)
(* not starting with 91), with confidence 50 for one heuristic and 65 for  *)
(* two and the fired heuristics as the only risk factors; otherwise it is  *)
(* safe with a confidence in [5,19].                                       *)
(***************************************************************************)
\* no entry of the table has the digits of the number
NotInTable(phoneNumber) ==
    \A k \in 1..Len(knownScamNumbers) :
       RemoveNonDigits(knownScamNumbers[k].number) # RemoveNonDigits(phoneNumber)

\* the prefix heuristics that fire for the digits
FiredHeuristics(digits) ==
       (IF SubSeq(digits, 1, 3) \in {"900", "905"}
        THEN <<"Premium rate number">> ELSE <<>>)
    \o (IF Len(digits) > 10 /\ SubSeq(digits, 1, 2) # "91"
        THEN <<"International/VOIP number">> ELSE <<>>)

C26_UnknownNumber ==
    (channel = "phone" /\ confidence # <<>> /\ NotInTable(input)) =>
        LET fired == FiredHeuristics(RemoveNonDigits(input))
        IN  /\ verdict # "dangerous"
            /\ (verdict = "suspicious") <=> (Len(fired) > 0)
            /\ Len(fired) = 1 => (confidence = <<50>> /\ riskFactors = fired)
            /\ Len(fired) = 2 => (confidence = <<65>> /\ riskFactors = fired)
            /\ Len(fired) = 0 =>
                  (verdict = "safe" /\ confidence[1] >= 5 /\ confidence[1] <= 19)

\* a premium-rate number of eleven digits: both heuristics fire
C26_Witness ==
    /\ channel = "phone"
    /\ input = "90512345678"
    /\ verdict = "suspicious"
    /\ confidence = <<65>>
    /\ riskFactors = <<"Premium rate number", "International/VOIP number">>

(***************************************************************************)
(* C27: the phone lookup is insensitive to formatting: whether an input is *)
(* found in the known-scammer table depends only on its sequence of        *)
(* digits: two inputs with the same digits after stripping the non-digit   *)
(* characters yield the same table entry or are both not found, and a      *)
(* found number takes the dangerous branch whatever the prefix heuristics. *)
(***************************************************************************)
C27_FormatInsensitive ==
    (channel = "phone" /\ confidence # <<>>) =>
        /\ \A other \in PhoneInputs :
              RemoveNonDigits(other) = RemoveNonDigits(input)
                  => lookupScammer(other) = lookupScammer(input)
        /\ ~NotInTable(input) =>
              /\ lookupScammer(input) # <<>>
              /\ verdict = "dangerous"
              /\ riskFactors[2] = "Last seen: " \o lookupScammer(input)[1].lastSeen

\* the first entry of the table written in brackets is found
C27_Witness ==
    /\ channel = "phone"
    /\ input = "(+91-9876543210)"
    /\ verdict = "dangerous"
    /\ riskFactors[2] = "Last seen: 2 hours ago"

(***************************************************************************)
(* C29: rejected requests leave the store unchanged: a scan request whose  *)
(* content is missing, empty or (where checked) not a string is answered   *)
(* with a 400 error without a createScan call: the stored scans and the    *)
(* next scan id are the same before and after the request.                 *)
(***************************************************************************)
\* the step in which the scan request of handler h is answered with 400
Rejects(h) ==
    /\ Len(responses'[h]) = Len(responses[h]) + 1
    /\ responses'[h][Len(responses'[h])].status = 400
    /\ handlers'[h].type \in ScanTypes

C29_RejectKeepsStore ==
    [][\A h \in Requests :
          Rejects(h) => /\ handlers[h].pc = "idle"
                        /\ handlers'[h].pc = "done"
                        /\ handlers'[h].scan = <<>>
                        /\ scans' = scans
                        /\ currentScanId' = currentScanId]_vars

\* an APK request without app name was rejected after another request had
\* stored its scan: the store still holds that one scan
C29_Witness ==
    /\ Len(scans) = 1 /\ currentScanId = 2
    /\ Len(handlers[1].scan) = 1
    /\ handlers[2].type = "apk" /\ handlers[2].pc = "done"
    /\ handlers[2].scan = <<>>
    /\ Len(responses[2]) = 1 /\ responses[2][1].status = 400

(***************************************************************************)
(* C21: every scan request eventually receives exactly one response,       *)
(* either a complete result (id, verdict, confidence, riskFactors and      *)
(* timestamp all present) or an error object; no path of a scan handler    *)
(* sends a partially populated result, sends two responses or leaves the   *)
(* request unanswered, provided what the handler awaits completes.         *)
(***************************************************************************)
\* a result with all its fields
IsCompleteResult(body) ==
    /\ {"id", "verdict", "confidence", "riskFactors", "timestamp"} \subseteq DOMAIN body
    /\ body.id \in Nat
    /\ body.verdict \in {"safe", "suspicious", "dangerous"}
    /\ body.confidence \in 0..100
    /\ body.riskFactors \in Seq(STRING)
    /\ body.timestamp \in Nat

IsErrorObject(body) == DOMAIN body = {"error"} /\ body.error \in STRING

\* the scan requests that have reached their handler
ScanRequests == {h \in Requests : handlers[h].type \in ScanTypes}

WellAnswered ==
    \A h \in ScanRequests :
       /\ Len(responses[h]) <= 1
       /\ handlers[h].pc = "done" => Len(responses[h]) = 1
       /\ \A r \in 1..Len(responses[h]) :
             IF responses[h][r].status = 200
             THEN IsCompleteResult(responses[h][r].body)
             ELSE IsErrorObject(responses[h][r].body)

=============================================================================
